---- MODULE Spec2Model ----
(***************************************************************************)
(* LDPC decoding core of labrador-ldpc (src/src/ldpc_decoder.c):           *)
(* erasure pre-decoder, bit-flipping decoder, min-sum message-passing      *)
(* decoder and the hard/soft conversion utilities.                         *)
(*                                                                         *)
(* The code tables, the sparse graph builder and the encoder live in       *)
(* ldpc_codes.c / ldpc_encoder.c, which are not part of the sources at     *)
(* hand.  They are represented by two small stand-in codes that keep the   *)
(* structure the decoder relies on (8 | n, 8 | p, n-k+p checks, n+p        *)
(* variable nodes, systematic codewords, every punctured bit has a check   *)
(* in which it is the only punctured bit).                                 *)
(*                                                                         *)
(* C arrays are 0-based; they are held in 1-based sequences and read with  *)
(* At(arr, i) == arr[i+1].  LLRs and messages are integer-valued floats,   *)
(* on which the min-sum arithmetic of the decoder is exact.                *)
(***************************************************************************)
EXTENDS Integers, Sequences, FiniteSets, TLC

VARIABLES code, ci, cs, vi, vs, input, llrs, output, working,
          iters_run, ret, pc, calls, iters, a, bits_fixed

vars == <<code, ci, cs, vi, vs, input, llrs, output, working,
          iters_run, ret, pc, calls, iters, a, bits_fixed>>

(***************************************************************************)
(* Bounds of the model                                                     *)
(***************************************************************************)
\* the hard-decision decoder is given codewords with at most this many bit
\* errors
MaxErrWeightBF == 2
\* the soft-decision decoder and the conversions are given codewords with at
\* most one bit error, at a bit position in 0..MaxErrBitMP (bin/test.c flips
\* bit 0)
MaxErrBitMP == 3
\* initial buffer contents are drawn from the patterns 0..MaxGarbage
MaxGarbage == 1
\* caller-supplied soft LLRs are drawn from the profiles 0..MaxProfile
MaxProfile == 1

(***************************************************************************)
(* Program constants                                                       *)
(***************************************************************************)
\* ldpc_decode_erasures: const int max_iters = 16
max_iters_erasures == 16
\* ldpc_decode_bf: const int max_iters = 20
max_iters_bf == 20
\* ldpc_decode_mp: const int max_iters = 20
max_iters_mp == 20
\* <float.h> FLT_MAX; only ever compared against, see check_update
FLT_MAX == 2147483647
\* logf(0.05f) = -2.9957..., kept as the nearest integer-valued float
LOGF_0_05 == -3

NULL == << -1 >>

At(arr, i) == arr[i + 1]

\* Always true.  TLC passes operator arguments unevaluated; naming a loop's
\* accumulator here makes it a value before the next pass of the loop.
Evaluated(x) == x = x

(***************************************************************************)
(* Code registry (stand-in codes), graph builder and encoder               *)
(***************************************************************************)
LDPC_CODE_NONE == "LDPC_CODE_NONE"
CODE_N8_K2     == "CODE_N8_K2"
CODE_N8_K4_P8  == "CODE_N8_K4_P8"

RealCodes == {CODE_N8_K2, CODE_N8_K4_P8}
Codes     == RealCodes \cup {LDPC_CODE_NONE}

\* rows of H: for each check, the set of variable nodes it involves
ParityCheck(c) ==
    IF c = CODE_N8_K2 THEN
        << {1,2,6}, {3,6}, {1,2,4,6}, {0,7}, {2,3,4,5}, {2,7} >>
    ELSE IF c = CODE_N8_K4_P8 THEN
        << {6,7,8}, {5,6,9}, {1,7,10}, {0,4,7,11}, {1,5,12}, {4,5,7,13},
           {1,2,6,14}, {0,2,3,15}, {3,12,15}, {4,14,15}, {7,9,15}, {0,8,9} >>
    ELSE << >>

RECURSIVE SumCard(_, _)
SumCard(rows, i) ==
    IF i > Len(rows) THEN 0 ELSE Cardinality(rows[i]) + SumCard(rows, i + 1)

\* s: the number of 1s of the parity check matrix
Edges == [c \in RealCodes |-> SumCard(ParityCheck(c), 1)]

\* the codes of enum ldpc_code, whose matrices are too large to build here
LDPC_CODE_N128_K64    == "LDPC_CODE_N128_K64"
LDPC_CODE_N256_K128   == "LDPC_CODE_N256_K128"
LDPC_CODE_N512_K256   == "LDPC_CODE_N512_K256"
LDPC_CODE_N1280_K1024 == "LDPC_CODE_N1280_K1024"
LDPC_CODE_N1536_K1024 == "LDPC_CODE_N1536_K1024"
LDPC_CODE_N2048_K1024 == "LDPC_CODE_N2048_K1024"

EnumCodes ==
    {LDPC_CODE_N128_K64, LDPC_CODE_N256_K128, LDPC_CODE_N512_K256,
     LDPC_CODE_N1280_K1024, LDPC_CODE_N1536_K1024, LDPC_CODE_N2048_K1024}

\* LDPC_PARAM_N_##CODE, LDPC_PARAM_K_##CODE, LDPC_PARAM_P_##CODE
LDPC_PARAM_N(c) ==
    IF c = LDPC_CODE_N128_K64 THEN 128
    ELSE IF c = LDPC_CODE_N256_K128 THEN 256
    ELSE IF c = LDPC_CODE_N512_K256 THEN 512
    ELSE IF c = LDPC_CODE_N1280_K1024 THEN 1280
    ELSE IF c = LDPC_CODE_N1536_K1024 THEN 1536
    ELSE IF c = LDPC_CODE_N2048_K1024 THEN 2048
    ELSE IF c \in RealCodes THEN 8
    ELSE 0

LDPC_PARAM_K(c) ==
    IF c = LDPC_CODE_N128_K64 THEN 64
    ELSE IF c = LDPC_CODE_N256_K128 THEN 128
    ELSE IF c = LDPC_CODE_N512_K256 THEN 256
    ELSE IF c = LDPC_CODE_N1280_K1024 THEN 1024
    ELSE IF c = LDPC_CODE_N1536_K1024 THEN 1024
    ELSE IF c = LDPC_CODE_N2048_K1024 THEN 1024
    ELSE IF c = CODE_N8_K2 THEN 2
    ELSE IF c = CODE_N8_K4_P8 THEN 4
    ELSE 0

LDPC_PARAM_P(c) ==
    IF c = LDPC_CODE_N1280_K1024 THEN 128
    ELSE IF c = LDPC_CODE_N1536_K1024 THEN 256
    ELSE IF c = LDPC_CODE_N2048_K1024 THEN 512
    ELSE IF c = CODE_N8_K4_P8 THEN 8
    ELSE 0

LDPC_PARAM_S(c) ==
    IF c = LDPC_CODE_N128_K64 THEN 512
    ELSE IF c = LDPC_CODE_N256_K128 THEN 1024
    ELSE IF c = LDPC_CODE_N512_K256 THEN 2048
    ELSE IF c = LDPC_CODE_N1280_K1024 THEN 4992
    ELSE IF c = LDPC_CODE_N1536_K1024 THEN 5888
    ELSE IF c = LDPC_CODE_N2048_K1024 THEN 7680
    ELSE 0

\* "#define LDPC_SIZE_BF_WA(CODE) (((LDPC_PARAM_N(CODE) + LDPC_PARAM_P(CODE))
\*  * 9) / 8)"
LDPC_SIZE_BF_WA(c) == ((LDPC_PARAM_N(c) + LDPC_PARAM_P(c)) * 9) \div 8

ldpc_codes_get_params(c) ==
    IF c = CODE_N8_K2 THEN [n |-> 8, k |-> 2, p |-> 0, s |-> Edges[c]]
    ELSE IF c = CODE_N8_K4_P8 THEN [n |-> 8, k |-> 4, p |-> 8, s |-> Edges[c]]
    ELSE IF c \in EnumCodes
    THEN [n |-> LDPC_PARAM_N(c), k |-> LDPC_PARAM_K(c),
          p |-> LDPC_PARAM_P(c), s |-> LDPC_PARAM_S(c)]
    ELSE [n |-> 0, k |-> 0, p |-> 0, s |-> 0]

\* "return n+p;"
ldpc_decode_size_bf_wa(c) ==
    ldpc_codes_get_params(c).n + ldpc_codes_get_params(c).p

RECURSIVE SortedSeq(_)
SortedSeq(S) ==
    IF S = {} THEN << >>
    ELSE LET m == CHOOSE x \in S : \A y \in S : x <= y
         IN  << m >> \o SortedSeq(S \ {m})

RECURSIVE Concat(_, _)
Concat(lists, i) ==
    IF i > Len(lists) THEN << >> ELSE lists[i] \o Concat(lists, i + 1)

RECURSIVE Starts_by_one(_, _, _)
RECURSIVE Starts(_, _, _)
\* starting points that advance by one entry per sub-list
Starts_by_one(lists, i, off) ==
    IF i > Len(lists) THEN << off >>
    ELSE << off >> \o Starts_by_one(lists, i + 1, off + 1)

\* the starting point of each sub-list and, last, one after the end
Starts(lists, i, off) ==
    IF i > Len(lists) THEN << off >>
    ELSE << off >> \o Starts(lists, i + 1, off + Len(lists[i]))

\* ldpc_codes_init_sparse_paritycheck: both indexings of H, ascending
ldpc_codes_init_sparse_paritycheck(c) ==
    LET prm  == ldpc_codes_get_params(c)
        H    == ParityCheck(c)
        rows == [i \in 1..Len(H) |-> SortedSeq(H[i])]
        cols == [b \in 1..(prm.n + prm.p) |->
                    SortedSeq({i \in 0..(Len(H) - 1) : (b - 1) \in H[i + 1]})]
    IN  [ci |-> Concat(rows, 1), cs |-> Starts(rows, 1, 0),
         vi |-> Concat(cols, 1), vs |-> Starts(cols, 1, 0)]

Graph == [c \in Codes |-> ldpc_codes_init_sparse_paritycheck(c)]

(***************************************************************************)
(* Packed bit buffers: bit j of the stream is bit 7-(j mod 8) of byte j/8  *)
(***************************************************************************)
Mask(b) == 2 ^ (7 - (b % 8))

GetBit(buf, b) == (At(buf, b \div 8) \div Mask(b)) % 2

SetBit(buf, b) ==
    IF GetBit(buf, b) = 1 THEN buf
    ELSE [buf EXCEPT ![(b \div 8) + 1] = @ + Mask(b)]

\* "&=" with the mask not complemented: the other bits of the byte go to 0
ClearBit_others(buf, b) ==
    [buf EXCEPT ![(b \div 8) + 1] = GetBit(buf, b) * Mask(b)]

\* "output[a/8] &= ~(1<<(7-(a%8)))"
ClearBit(buf, b) ==
    IF GetBit(buf, b) = 0 THEN buf
    ELSE [buf EXCEPT ![(b \div 8) + 1] = @ - Mask(b)]

\* "|=" in place of "^=": the bit is set, never cleared
FlipBit_or(buf, b) == SetBit(buf, b)

\* "output[a/8] ^= 1<<(7-(a%8))"
FlipBit(buf, b) ==
    IF GetBit(buf, b) = 1 THEN ClearBit(buf, b) ELSE SetBit(buf, b)

\* a copy that stops one byte early
memcpy_short(dst, src, len) ==
    [j \in 1..Len(dst) |-> IF j <= len - 1 THEN src[j] ELSE dst[j]]

\* memcpy(dst, src, len) / memset(dst + off, val, len) on 0-based arrays
memcpy(dst, src, len) ==
    [j \in 1..Len(dst) |-> IF j <= len THEN src[j] ELSE dst[j]]

\* a memset that writes nothing
memset_skipped(dst, off, val, len) == dst

memset(dst, off, val, len) ==
    [j \in 1..Len(dst) |-> IF j > off /\ j <= off + len THEN val ELSE dst[j]]

RECURSIVE XorByte(_, _)
XorByte(x, y) ==
    IF x = 0 THEN y
    ELSE IF y = 0 THEN x
    ELSE ((x + y) % 2) + 2 * XorByte(x \div 2, y \div 2)

XorBytes(x, y) == [j \in 1..Len(x) |-> XorByte(x[j], y[j])]

\* systematic generator rows (n transmitted bits), one per message bit
Generator(c) ==
    IF c = CODE_N8_K2 THEN << <<179>>, <<86>> >>
    ELSE IF c = CODE_N8_K4_P8 THEN << <<140>>, <<77>>, <<47>>, <<18>> >>
    ELSE << >>

Messages(c) == [1..ldpc_codes_get_params(c).k -> {0, 1}]

RECURSIVE EncodeFrom(_, _, _)
EncodeFrom(c, x, i) ==
    IF i > Len(Generator(c))
    THEN [j \in 1..(ldpc_codes_get_params(c).n \div 8) |-> 0]
    ELSE IF x[i] = 1
         THEN XorBytes(Generator(c)[i], EncodeFrom(c, x, i + 1))
         ELSE EncodeFrom(c, x, i + 1)

\* ldpc_encode_small / ldpc_encode_fast: c = xG, n/8 bytes
ldpc_encode(c, x) == EncodeFrom(c, x, 1)

Codewords == [c \in Codes |-> {ldpc_encode(c, x) : x \in Messages(c)}]

(***************************************************************************)
(* Caller-side buffers (bin/test.c allocates them with malloc, so their    *)
(* initial contents are arbitrary)                                         *)
(***************************************************************************)
GarbageByte(g)  == (165 + 90 * g) % 256
GarbageFloat(g) == 5 + 2 * g
GarbageU16(g)   == 4660 + g

Fill(len, val) == [j \in 1..len |-> val]

\* caller-supplied soft information agreeing with the hard word w
SoftLLRs(w, len, g) ==
    [j \in 1..len |->
        (IF GetBit(w, j - 1) = 1 THEN -1 ELSE 1) * (1 + ((j * (g + 1)) % 3))]

Words(len) == [1..(len \div 8) -> 0..255]

RECURSIVE Weight(_)
\* number of 1 bits of a byte
Weight(x) == IF x = 0 THEN 0 ELSE (x % 2) + Weight(x \div 2)

RECURSIVE WeightFrom(_, _)
WeightFrom(w, j) == IF j > Len(w) THEN 0 ELSE Weight(w[j]) + WeightFrom(w, j + 1)

\* what the channel delivers: a codeword with at most maxw bits flipped
Received(maxw) ==
    [c \in Codes |->
        {XorBytes(cw, e) :
            cw \in Codewords[c],
            e \in {f \in Words(ldpc_codes_get_params(c).n) :
                      WeightFrom(f, 1) <= maxw}}]

ReceivedBF == Received(MaxErrWeightBF)

ReceivedMP ==
    [c \in Codes |->
        Codewords[c] \cup
        {FlipBit(cw, b) :
            cw \in Codewords[c],
            b \in {x \in 0..MaxErrBitMP : x < ldpc_codes_get_params(c).n}}]

InitGraph(built, g, w, via, vsa) ==
    /\ code \in {built, LDPC_CODE_NONE}
    /\ ci = Graph[built].ci
    /\ cs = Graph[built].cs
    /\ vi = via
    /\ vs = vsa
    /\ input = w
    /\ output = Fill((ldpc_codes_get_params(built).n
                      + ldpc_codes_get_params(built).p) \div 8, GarbageByte(g))
    /\ iters_run = GarbageU16(g)
    /\ ret = FALSE
    /\ pc = "idle"
    /\ calls = << >>
    /\ iters = 0
    /\ a = 0
    /\ bits_fixed = 0

InitCommon(built, g, w) ==
    InitGraph(built, g, w, Graph[built].vi, Graph[built].vs)

\* what a caller of ldpc_decode_bf may pass as vi and vs: the built arrays
\* or, for an unpunctured code, NULL
VariableIndex(built) ==
    {<<Graph[built].vi, Graph[built].vs>>}
    \cup (IF ldpc_codes_get_params(built).p = 0 THEN {<<NULL, NULL>>} ELSE {})

\* buffers as bin/test.c sets them up for ldpc_decode_bf
InitBF ==
    \E built \in RealCodes, g \in 0..MaxGarbage :
      \E w \in ReceivedBF[built], vx \in VariableIndex(built) :
        /\ InitGraph(built, g, w, vx[1], vx[2])
        /\ llrs = Fill(ldpc_codes_get_params(built).n, GarbageFloat(0))
        /\ working = Fill(ldpc_decode_size_bf_wa(built), GarbageByte(g))

(***************************************************************************)
(* ldpc_decode_erasures                                                    *)
(***************************************************************************)
RECURSIVE SliceParity(_, _, _, _, _, _)
\* parity of the bits of out at ci[from..to), leaving out variable skip
SliceParity(cia, out, from, to, skip, acc) ==
    IF from >= to THEN acc
    ELSE SliceParity(cia, out, from + 1, to, skip,
            IF At(cia, from) = skip THEN acc
            ELSE (acc + GetBit(out, At(cia, from))) % 256)

\* the vote cast without the test that the check has no other erased bit
ErasureVote_any(cia, csa, erasures, out, b, i) ==
    LET parity == SliceParity(cia, out, At(csa, i), At(csa, i + 1), b, 0)
    IN  IF parity % 2 = 1 THEN 1 ELSE -1

\* the vote with the parity test the wrong way round
ErasureVote_inverted(cia, csa, erasures, out, b, i) ==
    LET only_one_erasure ==
            \A i_b \in At(csa, i)..(At(csa, i + 1) - 1) :
                At(cia, i_b) = b \/ At(erasures, At(cia, i_b)) = 0
        parity == SliceParity(cia, out, At(csa, i), At(csa, i + 1), b, 0)
    IN  IF ~only_one_erasure THEN 0
        ELSE IF parity % 2 = 1 THEN -1 ELSE 1

\* the vote check i casts for erased bit b: 0 when i has another erasure
ErasureVote(cia, csa, erasures, out, b, i) ==
    LET only_one_erasure ==
            \A i_b \in At(csa, i)..(At(csa, i + 1) - 1) :
                At(cia, i_b) = b \/ At(erasures, At(cia, i_b)) = 0
        parity == SliceParity(cia, out, At(csa, i), At(csa, i + 1), b, 0)
    IN  IF ~only_one_erasure THEN 0
        ELSE IF parity % 2 = 1 THEN 1 ELSE -1

RECURSIVE ErasureVotes_first(_, _, _, _, _, _, _, _, _)
RECURSIVE ErasureVotes(_, _, _, _, _, _, _, _, _)
\* the loop over a_i left as soon as one check has voted
ErasureVotes_first(cia, csa, via, erasures, out, b, a_i, to, votes) ==
    IF a_i >= to \/ votes # 0 THEN votes
    ELSE ErasureVotes_first(cia, csa, via, erasures, out, b, a_i + 1, to,
            votes + ErasureVote(cia, csa, erasures, out, b, At(via, a_i)))

\* "for(a_i=vs[a]; a_i<vs[a+1]; a_i++)": the sum of the votes of the checks
ErasureVotes(cia, csa, via, erasures, out, b, a_i, to, votes) ==
    IF a_i >= to THEN votes
    ELSE ErasureVotes(cia, csa, via, erasures, out, b, a_i + 1, to,
            votes + ErasureVote(cia, csa, erasures, out, b, At(via, a_i)))

\* the loop condition without the early exit "bits_fixed<p"
erasures_loop_to_the_cap(it, fixed, p) == it < max_iters_erasures

\* loop condition of "for(iters=0; iters<max_iters && bits_fixed<p; iters++)"
erasures_loop(it, fixed, p) == it < max_iters_erasures /\ fixed < p

\* one pass of the body of "for(a=n; a<n+p; a++)", followed by the loop
\* bookkeeping of both for loops and, when they end, the return to bf
ldpc_decode_erasures_bit ==
    /\ pc = "erasures"
    /\ LET prm == ldpc_codes_get_params(code)
           Tally(votes) ==
               LET fix   == At(working, a) # 0 /\ votes # 0
                   fixed == IF fix THEN bits_fixed + 1 ELSE bits_fixed
               IN  /\ working' = IF fix THEN [working EXCEPT ![a + 1] = 0]
                                 ELSE working
                   /\ output'  = IF ~fix THEN output
                                 ELSE IF votes > 0 THEN SetBit(output, a)
                                 ELSE ClearBit(output, a)
                   /\ bits_fixed' = fixed
                   /\ IF a + 1 < prm.n + prm.p
                      THEN /\ a' = a + 1
                           /\ UNCHANGED <<iters, iters_run, pc>>
                      ELSE IF erasures_loop(iters + 1, fixed, prm.p)
                      THEN /\ a' = prm.n
                           /\ iters' = iters + 1
                           /\ UNCHANGED <<iters_run, pc>>
                      ELSE /\ iters_run' = iters + 1
                           /\ iters' = 0
                           /\ pc' = "bf"
                           /\ a' = a + 1
       IN  Tally(ErasureVotes(ci, cs, vi, working, output, a,
                              At(vs, a), At(vs, a + 1), 0))
    /\ UNCHANGED <<code, ci, cs, vi, vs, input, llrs, ret, calls>>

(***************************************************************************)
(* ldpc_decode_bf                                                          *)
(***************************************************************************)
\* the entry without "memset(output + n/8, 0x00, p/8)"
ldpc_decode_bf_entry_no_zeroing ==
    /\ pc = "idle"
    /\ calls = << >>
    /\ Len(working) = 8 * Len(output)
    /\ calls' = Append(calls, "bf")
    /\ iters_run' = 0
    /\ IF code = LDPC_CODE_NONE
       THEN /\ ret' = FALSE
            /\ pc' = "done"
            /\ UNCHANGED <<output, working, iters, a, bits_fixed>>
       ELSE LET prm  == ldpc_codes_get_params(code)
                out1 == memcpy(output, input, prm.n \div 8)
            IN  IF prm.p > 0
                THEN IF ci = NULL \/ cs = NULL \/ vi = NULL \/ vs = NULL
                     THEN /\ output' = out1
                          /\ pc' = "bf"
                          /\ iters' = 0
                          /\ UNCHANGED <<working, ret, a, bits_fixed>>
                     ELSE /\ working' = memset(memset(working, 0, 0, prm.n),
                                               prm.n, 1, prm.p)
                          /\ output' = out1
                          /\ bits_fixed' = 0
                          /\ iters' = 0
                          /\ a' = prm.n
                          /\ pc' = "erasures"
                          /\ UNCHANGED ret
                ELSE /\ output' = out1
                     /\ pc' = "bf"
                     /\ iters' = 0
                     /\ UNCHANGED <<working, ret, a, bits_fixed>>
    /\ UNCHANGED <<code, ci, cs, vi, vs, input, llrs>>

\* the entry with the NULL test of ldpc_decode_erasures after its memsets
ldpc_decode_bf_entry_null_test_late ==
    /\ pc = "idle"
    /\ calls = << >>
    /\ Len(working) = 8 * Len(output)
    /\ calls' = Append(calls, "bf")
    /\ iters_run' = 0
    /\ IF code = LDPC_CODE_NONE
       THEN /\ ret' = FALSE
            /\ pc' = "done"
            /\ UNCHANGED <<output, working, iters, a, bits_fixed>>
       ELSE LET prm  == ldpc_codes_get_params(code)
                out1 == memcpy(output, input, prm.n \div 8)
            IN  IF prm.p > 0
                THEN IF ci = NULL \/ cs = NULL \/ vi = NULL \/ vs = NULL
                     THEN /\ working' = memset(memset(working, 0, 0, prm.n),
                                               prm.n, 1, prm.p)
                          /\ output' = memset(out1, prm.n \div 8, 0,
                                              prm.p \div 8)
                          /\ pc' = "bf"
                          /\ iters' = 0
                          /\ UNCHANGED <<ret, a, bits_fixed>>
                     ELSE /\ working' = memset(memset(working, 0, 0, prm.n),
                                               prm.n, 1, prm.p)
                          /\ output' = memset(out1, prm.n \div 8, 0,
                                              prm.p \div 8)
                          /\ bits_fixed' = 0
                          /\ iters' = 0
                          /\ a' = prm.n
                          /\ pc' = "erasures"
                          /\ UNCHANGED ret
                ELSE /\ output' = out1
                     /\ pc' = "bf"
                     /\ iters' = 0
                     /\ UNCHANGED <<working, ret, a, bits_fixed>>
    /\ UNCHANGED <<code, ci, cs, vi, vs, input, llrs>>

\* entry of ldpc_decode_bf up to the first loop: sentinel test, memcpy and,
\* for punctured codes, the call of ldpc_decode_erasures up to its loop
ldpc_decode_bf_entry ==
    /\ pc = "idle"
    /\ calls = << >>
    /\ Len(working) = 8 * Len(output)
    /\ calls' = Append(calls, "bf")
    /\ iters_run' = 0
    /\ IF code = LDPC_CODE_NONE
       THEN /\ ret' = FALSE
            /\ pc' = "done"
            /\ UNCHANGED <<output, working, iters, a, bits_fixed>>
       ELSE LET prm  == ldpc_codes_get_params(code)
                out1 == memcpy(output, input, prm.n \div 8)
            IN  IF prm.p > 0
                THEN IF ci = NULL \/ cs = NULL \/ vi = NULL \/ vs = NULL
                     THEN /\ output' = out1
                          /\ pc' = "bf"
                          /\ iters' = 0
                          /\ UNCHANGED <<working, ret, a, bits_fixed>>
                     ELSE /\ working' = memset(memset(working, 0, 0, prm.n),
                                               prm.n, 1, prm.p)
                          /\ output' = memset(out1, prm.n \div 8, 0,
                                              prm.p \div 8)
                          /\ bits_fixed' = 0
                          /\ iters' = 0
                          /\ a' = prm.n
                          /\ pc' = "erasures"
                          /\ UNCHANGED ret
                ELSE /\ output' = out1
                     /\ pc' = "bf"
                     /\ iters' = 0
                     /\ UNCHANGED <<working, ret, a, bits_fixed>>
    /\ UNCHANGED <<code, ci, cs, vi, vs, input, llrs>>

RECURSIVE CountIn(_, _, _, _)
\* occurrences of variable b in ci[from..to)
CountIn(cia, from, to, b) ==
    IF from >= to THEN 0
    ELSE (IF At(cia, from) = b THEN 1 ELSE 0) + CountIn(cia, from + 1, to, b)

RECURSIVE Violations_short(_, _, _, _, _, _)
RECURSIVE Violations(_, _, _, _, _, _)
\* the loop over the checks stopping one check early
Violations_short(cia, csa, out, i, checks, violations) ==
    IF i >= checks - 1 THEN violations
    ELSE LET parity == SliceParity(cia, out, At(csa, i), At(csa, i + 1), -1, 0)
         IN  Violations_short(cia, csa, out, i + 1, checks,
                IF parity % 2 # 0
                THEN [j \in 1..Len(violations) |->
                        (violations[j]
                         + CountIn(cia, At(csa, i), At(csa, i + 1), j - 1)) % 256]
                ELSE violations)

\* the loop over the checks i..checks-1 updating the uint8_t counters
Violations(cia, csa, out, i, checks, violations) ==
    IF i >= checks THEN violations
    ELSE LET parity == SliceParity(cia, out, At(csa, i), At(csa, i + 1), -1, 0)
         IN  Violations(cia, csa, out, i + 1, checks,
                IF parity % 2 # 0
                THEN [j \in 1..Len(violations) |->
                        (violations[j]
                         + CountIn(cia, At(csa, i), At(csa, i + 1), j - 1)) % 256]
                ELSE violations)

RECURSIVE MaxViolations_over_vs(_, _, _, _)
RECURSIVE MaxViolations(_, _, _, _)
\* the maximum taken over as many counters as vs has variable nodes
MaxViolations_over_vs(violations, b, nvars, max_violations) ==
    IF b >= Len(vs) - 1 THEN max_violations
    ELSE MaxViolations_over_vs(violations, b + 1, nvars,
            IF At(violations, b) > max_violations THEN At(violations, b)
            ELSE max_violations)

\* "for(a=0; a<(n+p); a++) if(violations[a] > max_violations) ..."
MaxViolations(violations, b, nvars, max_violations) ==
    IF b >= nvars THEN max_violations
    ELSE MaxViolations(violations, b + 1, nvars,
            IF At(violations, b) > max_violations THEN At(violations, b)
            ELSE max_violations)

RECURSIVE FlipMax_above(_, _, _, _, _)
RECURSIVE FlipMax(_, _, _, _, _)
\* the flip loop comparing with > instead of ==
FlipMax_above(out, violations, max_violations, b, nvars) ==
    IF b >= nvars THEN out
    ELSE FlipMax_above(IF At(violations, b) > max_violations
                       THEN FlipBit(out, b) ELSE out,
                       violations, max_violations, b + 1, nvars)

\* "for(a=0; a<(n+p); a++) if(violations[a] == max_violations) flip"
FlipMax(out, violations, max_violations, b, nvars) ==
    IF b >= nvars THEN out
    ELSE FlipMax(IF At(violations, b) = max_violations
                 THEN FlipBit(out, b) ELSE out,
                 violations, max_violations, b + 1, nvars)

\* the flip loop running one round too many
bf_loop_off_by_one(it) == it <= max_iters_bf

\* loop condition of "for(iters=0; iters<max_iters; iters++)"
bf_loop(it) == it < max_iters_bf

\* a round that also writes the flipped word back over the received input
ldpc_decode_bf_round_writing_back ==
    /\ pc = "bf"
    /\ LET prm == ldpc_codes_get_params(code)
           Decide(violations, max_violations) ==
               /\ working' = violations
               /\ IF max_violations = 0
                  THEN /\ iters_run' = (iters_run + iters) % 65536
                       /\ ret' = TRUE
                       /\ pc' = "done"
                       /\ UNCHANGED <<output, iters, input>>
                  ELSE /\ output' = FlipMax(output, violations,
                                             max_violations, 0, prm.n + prm.p)
                       /\ input' = memcpy(input, output', prm.n \div 8)
                       /\ iters' = iters + 1
                       /\ IF bf_loop(iters + 1)
                          THEN UNCHANGED <<iters_run, ret, pc>>
                          ELSE /\ iters_run' = (iters_run + iters + 1) % 65536
                               /\ ret' = FALSE
                               /\ pc' = "done"
           Count(violations) ==
               Decide(violations,
                      MaxViolations(violations, 0, prm.n + prm.p, 0))
       IN  Count(Violations(ci, cs, output, 0, prm.n - prm.k + prm.p,
                            memset(working, 0, 0, prm.n + prm.p)))
    /\ UNCHANGED <<code, ci, cs, vi, vs, llrs, calls, a, bits_fixed>>

\* a round whose success return has "*iters_run = iters" in place of "+="
ldpc_decode_bf_round_count_overwritten ==
    /\ pc = "bf"
    /\ LET prm == ldpc_codes_get_params(code)
           Decide(violations, max_violations) ==
               /\ working' = violations
               /\ IF max_violations = 0
                  THEN /\ iters_run' = iters % 65536
                       /\ ret' = TRUE
                       /\ pc' = "done"
                       /\ UNCHANGED <<output, iters>>
                  ELSE /\ output' = FlipMax(output, violations,
                                             max_violations, 0, prm.n + prm.p)
                       /\ iters' = iters + 1
                       /\ IF bf_loop(iters + 1)
                          THEN UNCHANGED <<iters_run, ret, pc>>
                          ELSE /\ iters_run' = (iters_run + iters + 1) % 65536
                               /\ ret' = FALSE
                               /\ pc' = "done"
           Count(violations) ==
               Decide(violations,
                      MaxViolations(violations, 0, prm.n + prm.p, 0))
       IN  Count(Violations(ci, cs, output, 0, prm.n - prm.k + prm.p,
                            memset(working, 0, 0, prm.n + prm.p)))
    /\ UNCHANGED <<code, ci, cs, vi, vs, input, llrs, calls, a, bits_fixed>>

\* one round of "for(iters=0; iters<max_iters; iters++)" and, after the
\* last round, the failure return
ldpc_decode_bf_round ==
    /\ pc = "bf"
    /\ LET prm == ldpc_codes_get_params(code)
           Decide(violations, max_violations) ==
               /\ working' = violations
               /\ IF max_violations = 0
                  THEN /\ iters_run' = (iters_run + iters) % 65536
                       /\ ret' = TRUE
                       /\ pc' = "done"
                       /\ UNCHANGED <<output, iters>>
                  ELSE /\ output' = FlipMax(output, violations,
                                             max_violations, 0, prm.n + prm.p)
                       /\ iters' = iters + 1
                       /\ IF bf_loop(iters + 1)
                          THEN UNCHANGED <<iters_run, ret, pc>>
                          ELSE /\ iters_run' = (iters_run + iters + 1) % 65536
                               /\ ret' = FALSE
                               /\ pc' = "done"
           Count(violations) ==
               Decide(violations,
                      MaxViolations(violations, 0, prm.n + prm.p, 0))
       IN  Count(Violations(ci, cs, output, 0, prm.n - prm.k + prm.p,
                            memset(working, 0, 0, prm.n + prm.p)))
    /\ UNCHANGED <<code, ci, cs, vi, vs, input, llrs, calls, a, bits_fixed>>

NextBF ==
    \/ ldpc_decode_bf_entry
    \/ ldpc_decode_erasures_bit
    \/ ldpc_decode_bf_round

SpecBF == InitBF /\ [][NextBF]_vars

\* what a caller may pass as vi and vs: each the built array or NULL
GraphOrNull(built) ==
    {<<via, vsa>> : via \in {Graph[built].vi, NULL},
                    vsa \in {Graph[built].vs, NULL}}

\* buffers as bin/test.c sets them up for ldpc_decode_bf, with vi and vs
\* built or left NULL
InitNull ==
    \E built \in RealCodes, g \in 0..MaxGarbage :
      \E w \in ReceivedBF[built], vx \in GraphOrNull(built) :
        /\ InitGraph(built, g, w, vx[1], vx[2])
        /\ llrs = Fill(ldpc_codes_get_params(built).n, GarbageFloat(0))
        /\ working = Fill(ldpc_decode_size_bf_wa(built), GarbageByte(g))

SpecNull == InitNull /\ [][NextBF]_vars

(***************************************************************************)
(* ldpc_decode_mp                                                          *)
(***************************************************************************)
sign(x) == IF x > 0 THEN 1 ELSE IF x < 0 THEN -1 ELSE 0

fabs(x) == IF x < 0 THEN -x ELSE x

\* buffers as bin/test.c sets them up for ldpc_decode_mp and the utilities
InitMP ==
    \E built \in RealCodes, g \in 0..MaxGarbage, prof \in 0..MaxProfile :
      \E w \in ReceivedMP[built] :
        /\ InitCommon(built, g, w)
        /\ llrs = SoftLLRs(w, ldpc_codes_get_params(built).n, prof)
        /\ working = Fill(2 * ldpc_codes_get_params(built).s, GarbageFloat(g))

RECURSIVE Find(_, _, _, _)
\* first position of arr[from..to) holding val, -1 if none (scan and break)
Find(arr, from, to, val) ==
    IF from >= to THEN -1
    ELSE IF At(arr, from) = val THEN from
    ELSE Find(arr, from + 1, to, val)

\* position in ci[cs[j]..cs[j+1]) of the message u(j->va)
TwinInCheck(cia, csa, j, va) == Find(cia, At(csa, j), At(csa, j + 1), va)

\* position in vi[vs[vb]..vs[vb+1]) of the message v(vb->i)
TwinInVariable(via, vsa, vb, i) == Find(via, At(vsa, vb), At(vsa, vb + 1), i)

RECURSIVE Incoming_all(_, _, _, _, _, _, _, _, _)
RECURSIVE Incoming(_, _, _, _, _, _, _, _, _)
\* the loop over a_j without the test "if(j != i)"
Incoming_all(cia, csa, via, wa, va, i, a_j, to, acc) ==
    IF a_j >= to \/ ~Evaluated(acc) THEN acc
    ELSE LET j == At(via, a_j)
             Add(j_b) ==
                 Incoming_all(cia, csa, via, wa, va, i, a_j + 1, to,
                    IF j_b = -1 THEN acc
                    ELSE [v_ai  |-> acc.v_ai + At(wa, j_b),
                          llr_a |-> acc.llr_a + At(wa, j_b)])
         IN  Add(TwinInCheck(cia, csa, j, va))

\* the loop over a_j: adds u(j->a) to v(a->i) for j # i, and to llr_a
Incoming(cia, csa, via, wa, va, i, a_j, to, acc) ==
    IF a_j >= to \/ ~Evaluated(acc) THEN acc
    ELSE LET j == At(via, a_j)
             Add(j_b) ==
                 Incoming(cia, csa, via, wa, va, i, a_j + 1, to,
                    IF j_b = -1 THEN acc
                    ELSE [v_ai  |-> IF j # i THEN acc.v_ai + At(wa, j_b)
                                    ELSE acc.v_ai,
                          llr_a |-> acc.llr_a + At(wa, j_b)])
         IN  Add(TwinInCheck(cia, csa, j, va))

\* the message stored without the self-correction
SelfCorrect_off(prev_v_ai, v_ai) == v_ai

\* "if(prev_v_ai != 0.0f && sign(v[a_i]) != sign(prev_v_ai)) v[a_i] = 0.0f"
SelfCorrect(prev_v_ai, v_ai) ==
    IF prev_v_ai # 0 /\ sign(v_ai) # sign(prev_v_ai) THEN 0 ELSE v_ai

RECURSIVE VariableEdges_over_u(_, _, _, _, _, _, _, _, _, _)
RECURSIVE VariableEdges(_, _, _, _, _, _, _, _, _, _)
\* the loop over a_i storing v[a_i] in the place of u[a_i]: nodes visited
\* later read messages of this iteration
VariableEdges_over_u(cia, csa, via, s, l_a, va, from, a_i, to, st) ==
    IF a_i >= to \/ ~Evaluated(st) THEN st
    ELSE LET i         == At(via, a_i)
             prev_v_ai == At(st.wa, s + a_i)
             Store(sums) ==
                 VariableEdges_over_u(cia, csa, via, s, l_a, va, from, a_i + 1, to,
                    [wa    |-> [st.wa EXCEPT ![a_i + 1] =
                                   SelfCorrect(prev_v_ai, sums.v_ai)],
                     llr_a |-> sums.llr_a])
         IN  Store(Incoming(cia, csa, via, st.wa, va, i, from, to,
                            [v_ai |-> l_a, llr_a |-> st.llr_a]))

\* the loop over a_i in [from, to) for variable va; st = [wa, llr_a]
VariableEdges(cia, csa, via, s, l_a, va, from, a_i, to, st) ==
    IF a_i >= to \/ ~Evaluated(st) THEN st
    ELSE LET i         == At(via, a_i)
             prev_v_ai == At(st.wa, s + a_i)
             Store(sums) ==
                 VariableEdges(cia, csa, via, s, l_a, va, from, a_i + 1, to,
                    [wa    |-> [st.wa EXCEPT ![s + a_i + 1] =
                                   SelfCorrect(prev_v_ai, sums.v_ai)],
                     llr_a |-> sums.llr_a])
         IN  Store(Incoming(cia, csa, via, st.wa, va, i, from, to,
                            [v_ai |-> l_a, llr_a |-> st.llr_a]))

RECURSIVE variable_update(_, _, _, _, _, _, _, _, _)
\* "for(a=0; a<n+p; a++)": messages v(a->i) and hard decisions; st = [wa, out]
variable_update(cia, csa, via, vsa, lls, prm, va, wa, out) ==
    IF va >= prm.n + prm.p \/ ~Evaluated(<<wa, out>>)
    THEN [wa |-> wa, out |-> out]
    ELSE LET l_a == IF va < prm.n THEN At(lls, va) ELSE 0
             Decide(st) ==
                 variable_update(cia, csa, via, vsa, lls, prm, va + 1, st.wa,
                                 IF st.llr_a <= 0 THEN SetBit(out, va)
                                 ELSE out)
         IN  Decide(VariableEdges(cia, csa, via, prm.s, l_a, va,
                                  At(vsa, va), At(vsa, va), At(vsa, va + 1),
                                  [wa |-> wa, llr_a |-> l_a]))

\* the accumulation keeping the larger magnitude
OtherStep_max(wa, s, b_j, acc) ==
    IF b_j = -1 THEN acc
    ELSE [sgnprod |-> acc.sgnprod * sign(At(wa, s + b_j)),
          minacc  |-> IF fabs(At(wa, s + b_j)) > acc.minacc
                      THEN fabs(At(wa, s + b_j)) ELSE acc.minacc]

\* sgnprod *= sign(v[b_j]); minacc = min(minacc, fabs(v[b_j]))
OtherStep(wa, s, b_j, acc) ==
    IF b_j = -1 THEN acc
    ELSE [sgnprod |-> acc.sgnprod * sign(At(wa, s + b_j)),
          minacc  |-> IF fabs(At(wa, s + b_j)) < acc.minacc
                      THEN fabs(At(wa, s + b_j)) ELSE acc.minacc]

RECURSIVE Others_including_self(_, _, _, _, _, _, _, _, _, _)
RECURSIVE Others(_, _, _, _, _, _, _, _, _, _)
\* the loop over i_b without the test "if(b == a) continue"
Others_including_self(cia, via, vsa, wa, s, i, va, i_b, to, acc) ==
    IF i_b >= to \/ ~Evaluated(acc) THEN acc
    ELSE Others_including_self(cia, via, vsa, wa, s, i, va, i_b + 1, to,
            OtherStep(wa, s, TwinInVariable(via, vsa, At(cia, i_b), i), acc))

\* the loop over i_b: sign product and minimum magnitude of the other v(b->i)
Others(cia, via, vsa, wa, s, i, va, i_b, to, acc) ==
    IF i_b >= to \/ ~Evaluated(acc) THEN acc
    ELSE Others(cia, via, vsa, wa, s, i, va, i_b + 1, to,
            IF At(cia, i_b) = va THEN acc
            ELSE OtherStep(wa, s, TwinInVariable(via, vsa, At(cia, i_b), i),
                           acc))

RECURSIVE CheckEdges_unsigned(_, _, _, _, _, _, _, _, _, _)
RECURSIVE CheckEdges(_, _, _, _, _, _, _, _, _, _)
\* the loop over i_a storing "u[i_a] = minacc", the sign product left out
CheckEdges_unsigned(cia, via, vsa, s, out, i, from, i_a, to, st) ==
    IF i_a >= to \/ ~Evaluated(st) THEN st
    ELSE LET va == At(cia, i_a)
             Store(o) ==
                 CheckEdges_unsigned(cia, via, vsa, s, out, i, from,
                    i_a + 1, to,
                    [wa     |-> [st.wa EXCEPT ![i_a + 1] = o.minacc],
                     parity |-> st.parity + GetBit(out, va)])
         IN  Store(Others(cia, via, vsa, st.wa, s, i, va, from, to,
                          [sgnprod |-> 1, minacc |-> FLT_MAX]))

\* the loop over i_a in [from, to) for check i; st = [wa, parity]
CheckEdges(cia, via, vsa, s, out, i, from, i_a, to, st) ==
    IF i_a >= to \/ ~Evaluated(st) THEN st
    ELSE LET va == At(cia, i_a)
             Store(o) ==
                 CheckEdges(cia, via, vsa, s, out, i, from, i_a + 1, to,
                    [wa     |-> [st.wa EXCEPT ![i_a + 1] =
                                    o.sgnprod * o.minacc],
                     parity |-> st.parity + GetBit(out, va)])
         IN  Store(Others(cia, via, vsa, st.wa, s, i, va, from, to,
                          [sgnprod |-> 1, minacc |-> FLT_MAX]))

RECURSIVE check_update_last_wins(_, _, _, _, _, _, _, _, _)
RECURSIVE check_update(_, _, _, _, _, _, _, _, _)
\* the check loop with "parity_ok = !(parity & 1)": the last check decides
check_update_last_wins(cia, csa, via, vsa, prm, out, i, wa, parity_ok) ==
    IF i >= prm.n - prm.k + prm.p \/ ~Evaluated(<<wa, parity_ok>>)
    THEN [wa |-> wa, parity_ok |-> parity_ok]
    ELSE LET Test(st) ==
                 check_update_last_wins(cia, csa, via, vsa, prm, out, i + 1,
                                        st.wa, st.parity % 2 # 1)
         IN  Test(CheckEdges(cia, via, vsa, prm.s, out, i,
                             At(csa, i), At(csa, i), At(csa, i + 1),
                             [wa |-> wa, parity |-> 0]))

\* "for(i=0; i<n-k+p; i++)": messages u(i->a) and the parity test
check_update(cia, csa, via, vsa, prm, out, i, wa, parity_ok) ==
    IF i >= prm.n - prm.k + prm.p \/ ~Evaluated(<<wa, parity_ok>>)
    THEN [wa |-> wa, parity_ok |-> parity_ok]
    ELSE LET Test(st) ==
                 check_update(cia, csa, via, vsa, prm, out, i + 1, st.wa,
                              IF st.parity % 2 = 1 THEN FALSE ELSE parity_ok)
         IN  Test(CheckEdges(cia, via, vsa, prm.s, out, i,
                             At(csa, i), At(csa, i), At(csa, i + 1),
                             [wa |-> wa, parity |-> 0]))

\* the loop giving up one iteration early
mp_loop_short(it) == it < max_iters_mp - 1

\* loop condition of "for(iters=0; iters<max_iters; iters++)"
mp_loop(it) == it < max_iters_mp

\* the entry of ldpc_decode_mp without "if(code == LDPC_CODE_NONE)"
ldpc_decode_mp_entry_no_sentinel ==
    /\ pc = "idle"
    /\ calls \in {<< >>, <<"hard_to_llrs">>}
    /\ Len(working) = 2 * Len(ci)
    /\ calls' = Append(calls, "mp")
    /\ iters_run' = 0
    /\ LET prm == ldpc_codes_get_params(code)
       IN  /\ working' = memset(memset(working, 0, 0, prm.s), prm.s, 0, prm.s)
           /\ iters' = 0
           /\ pc' = "mp"
           /\ UNCHANGED ret
    /\ UNCHANGED <<code, ci, cs, vi, vs, input, llrs, output, a, bits_fixed>>

\* entry of ldpc_decode_mp up to the loop: sentinel test, u and v zeroed
ldpc_decode_mp_entry ==
    /\ pc = "idle"
    /\ calls \in {<< >>, <<"hard_to_llrs">>}
    /\ Len(working) = 2 * Len(ci)
    /\ calls' = Append(calls, "mp")
    /\ iters_run' = 0
    /\ IF code = LDPC_CODE_NONE
       THEN /\ ret' = FALSE
            /\ pc' = "done"
            /\ UNCHANGED <<working, iters>>
       ELSE LET prm == ldpc_codes_get_params(code)
            IN  /\ working' = memset(memset(working, 0, 0, prm.s),
                                     prm.s, 0, prm.s)
                /\ iters' = 0
                /\ pc' = "mp"
                /\ UNCHANGED ret
    /\ UNCHANGED <<code, ci, cs, vi, vs, input, llrs, output, a, bits_fixed>>

\* one iteration of "for(iters=0; iters<max_iters; iters++)" and, after the
\* last iteration, the failure return
ldpc_decode_mp_iter ==
    /\ pc = "mp"
    /\ LET prm == ldpc_codes_get_params(code)
           Finish(p1, p2) ==
               /\ output' = p1.out
               /\ working' = p2.wa
               /\ IF p2.parity_ok
                  THEN /\ iters_run' = iters
                       /\ ret' = TRUE
                       /\ pc' = "done"
                       /\ UNCHANGED iters
                  ELSE /\ iters' = iters + 1
                       /\ IF mp_loop(iters + 1)
                          THEN UNCHANGED <<iters_run, ret, pc>>
                          ELSE /\ iters_run' = iters + 1
                               /\ ret' = FALSE
                               /\ pc' = "done"
           Checks(p1) ==
               Finish(p1, check_update(ci, cs, vi, vs, prm, p1.out, 0,
                                       p1.wa, TRUE))
       IN  Checks(variable_update(ci, cs, vi, vs, llrs, prm, 0, working,
                      memset(output, 0, 0, (prm.n + prm.p) \div 8)))
    /\ UNCHANGED <<code, ci, cs, vi, vs, input, llrs, calls, a, bits_fixed>>

(***************************************************************************)
(* Hard/soft conversions                                                   *)
(***************************************************************************)
\* values of logf(ber) the caller of ldpc_decode_hard_to_llrs_ber tries:
\* ber < 1 gives a negative logarithm, ber = 1 gives 0
LogBers == {-1, 0}

hard_to_llrs_ber(c, inp, lls, logber) ==
    IF c = LDPC_CODE_NONE THEN lls
    ELSE [j \in 1..Len(lls) |->
            IF j <= ldpc_codes_get_params(c).n
            THEN IF GetBit(inp, j - 1) = 1 THEN logber ELSE -logber
            ELSE lls[j]]

ldpc_decode_hard_to_llrs_ber ==
    /\ pc = "idle"
    /\ calls = << >>
    /\ \E logber \in LogBers :
           llrs' = hard_to_llrs_ber(code, input, llrs, logber)
    /\ calls' = Append(calls, "hard_to_llrs_ber")
    /\ UNCHANGED <<code, ci, cs, vi, vs, input, output, working, iters_run,
                   ret, pc, iters, a, bits_fixed>>

ldpc_decode_hard_to_llrs ==
    /\ pc = "idle"
    /\ calls = << >>
    /\ llrs' = hard_to_llrs_ber(code, input, llrs, LOGF_0_05)
    /\ calls' = Append(calls, "hard_to_llrs")
    /\ UNCHANGED <<code, ci, cs, vi, vs, input, output, working, iters_run,
                   ret, pc, iters, a, bits_fixed>>

RECURSIVE PackHard(_, _, _, _)
\* "for(i=0; i<n; i++) output[i/8] |= (llrs[i] <= 0.0f) << (7 - (i%8))"
PackHard(lls, out, i, n) ==
    IF i >= n THEN out
    ELSE PackHard(lls, IF At(lls, i) <= 0 THEN SetBit(out, i) ELSE out,
                  i + 1, n)

\* the packing without "memset(output, 0, n/8)"
llrs_to_hard_no_clear(c, lls, out) ==
    IF c = LDPC_CODE_NONE THEN out
    ELSE PackHard(lls, out, 0, ldpc_codes_get_params(c).n)

llrs_to_hard(c, lls, out) ==
    IF c = LDPC_CODE_NONE THEN out
    ELSE PackHard(lls, memset(out, 0, 0, ldpc_codes_get_params(c).n \div 8),
                  0, ldpc_codes_get_params(c).n)

ldpc_decode_llrs_to_hard ==
    /\ pc = "idle"
    /\ calls \in {<< >>, <<"hard_to_llrs">>, <<"hard_to_llrs_ber">>}
    /\ output' = llrs_to_hard(code, llrs, output)
    /\ calls' = Append(calls, "llrs_to_hard")
    /\ UNCHANGED <<code, ci, cs, vi, vs, input, llrs, working, iters_run,
                   ret, pc, iters, a, bits_fixed>>

NextMP ==
    \/ ldpc_decode_hard_to_llrs
    \/ ldpc_decode_mp_entry
    \/ ldpc_decode_mp_iter

SpecMP == InitMP /\ [][NextMP]_vars

NextLLR ==
    \/ ldpc_decode_hard_to_llrs
    \/ ldpc_decode_hard_to_llrs_ber
    \/ ldpc_decode_llrs_to_hard

SpecLLR == InitMP /\ [][NextLLR]_vars

\* the whole library: every entry point, on either set of caller buffers
Init == InitBF \/ InitMP

Next ==
    \/ ldpc_decode_bf_entry
    \/ ldpc_decode_erasures_bit
    \/ ldpc_decode_bf_round
    \/ ldpc_decode_mp_entry
    \/ ldpc_decode_mp_iter
    \/ ldpc_decode_hard_to_llrs
    \/ ldpc_decode_hard_to_llrs_ber
    \/ ldpc_decode_llrs_to_hard

Spec == Init /\ [][Next]_vars

(***************************************************************************)
(* Vocabulary of the properties                                            *)
(***************************************************************************)
\* out satisfies every parity check of the graph in ci, cs
ParityChecksHold(out) ==
    \A i \in 0..(Len(cs) - 2) :
        Cardinality({i_a \in At(cs, i)..(At(cs, i + 1) - 1) :
                        GetBit(out, At(ci, i_a)) = 1}) % 2 = 0

\* the first k bits of out
MessageOf(out, k) == [j \in 1..k |-> GetBit(out, j - 1)]

\* the first n bits of out
FirstBits(out, n) == [j \in 1..n |-> GetBit(out, j - 1)]

\* lls is positive where w has a 0 and negative where w has a 1
SignsMatch(lls, w) ==
    \A j \in 1..Len(lls) :
        IF GetBit(w, j - 1) = 1 THEN lls[j] < 0 ELSE lls[j] > 0

BfReturned == pc = "done" /\ calls = <<"bf">>

MpReturned == pc = "done" /\ calls # << >> /\ calls[Len(calls)] = "mp"

C2_MpDecodesCodeword ==
    (MpReturned /\ code \in RealCodes) =>
        \A x \in Messages(code) :
            SignsMatch(llrs, ldpc_encode(code, x)) =>
                /\ ret = TRUE
                /\ MessageOf(output, ldpc_codes_get_params(code).k) = x

C2_Witness ==
    /\ MpReturned
    /\ calls = <<"hard_to_llrs", "mp">>
    /\ code = CODE_N8_K4_P8
    /\ SignsMatch(llrs, ldpc_encode(code, <<1, 0, 1, 1>>))
    /\ ret = TRUE
    /\ MessageOf(output, 4) = <<1, 0, 1, 1>>

C4_BfTrueIsCodeword ==
    (BfReturned /\ ret = TRUE) => ParityChecksHold(output)

C4_Witness ==
    /\ BfReturned
    /\ ret = TRUE
    /\ input \notin Codewords[code]
    /\ iters >= 1
    /\ ParityChecksHold(output)

\* C5: ldpc_decode_mp on a code returns true exactly when the n+p hard
\* decisions it leaves in output satisfy all n-k+p parity checks.
C5_MpTrueIffCodeword ==
    (MpReturned /\ code \in RealCodes) =>
        (ret = TRUE <=> ParityChecksHold(output))

C5_Witness ==
    /\ MpReturned
    /\ code \in RealCodes
    /\ ret = FALSE
    /\ iters_run = max_iters_mp
    /\ ~ParityChecksHold(output)

\* C6: whenever ldpc_decode_bf returns false on a code, the word left in
\* output is not a valid codeword.
C6_BfFalseIsNotCodeword ==
    (BfReturned /\ code \in RealCodes /\ ret = FALSE) =>
        ~ParityChecksHold(output)

\* what is left to run of the call in progress, counted in steps
Rank ==
    LET prm == ldpc_codes_get_params(code)
    IN  IF pc = "idle"
        THEN 25 + max_iters_erasures * prm.p - Len(calls)
        ELSE IF pc = "erasures"
        THEN 22 + (max_iters_erasures - iters) * prm.p - (a - prm.n)
        ELSE IF pc \in {"bf", "mp"}
        THEN 21 - iters
        ELSE 0

RoundsBounded ==
    /\ pc = "erasures" => iters < max_iters_erasures
    /\ pc = "bf" => iters < max_iters_bf /\ iters_run <= max_iters_erasures
    /\ pc = "mp" => iters < max_iters_mp
    /\ BfReturned => /\ iters <= max_iters_bf
                     /\ iters_run <= max_iters_erasures + max_iters_bf
    /\ MpReturned => iters <= max_iters_mp /\ iters_run <= max_iters_mp

\* C7: ldpc_decode_bf runs at most 16 erasure rounds and at most 20 flip
\* rounds, ldpc_decode_mp at most 20 iterations, and each of them returns:
\* every step of a call lowers a natural-valued measure, so no call runs
\* forever.
C7_DecodersTerminate ==
    /\ [](Rank \in Nat /\ RoundsBounded)
    /\ [][Rank' < Rank]_vars

C7_Witness ==
    /\ BfReturned
    /\ ret = FALSE
    /\ iters = max_iters_bf
    /\ iters_run = max_iters_bf

\* C8: with code LDPC_CODE_NONE every entry point returns at once and
\* leaves its buffers as they were; the two decoders return false and
\* report zero iterations.
C8_SentinelIsNoOp ==
    [][code = LDPC_CODE_NONE =>
          /\ output' = output
          /\ working' = working
          /\ llrs' = llrs
          /\ IF pc' = "done"
             THEN ret' = FALSE /\ iters_run' = 0
             ELSE pc' = "idle" /\ ret' = ret /\ iters_run' = iters_run]_vars

C8_Witness ==
    /\ code = LDPC_CODE_NONE
    /\ MpReturned
    /\ ret = FALSE
    /\ iters_run = 0
    /\ working = Fill(Len(working), GarbageFloat(1))
    /\ output = Fill(Len(output), GarbageByte(1))

C10_HardLlrRoundTrip ==
    (code \in RealCodes /\ calls # << >> /\ calls[1] = "hard_to_llrs") =>
        /\ \A j \in 1..ldpc_codes_get_params(code).n :
              IF GetBit(input, j - 1) = 1 THEN llrs[j] <= 0 ELSE llrs[j] > 0
        /\ calls = <<"hard_to_llrs", "llrs_to_hard">> =>
              \A j \in 1..(ldpc_codes_get_params(code).n \div 8) :
                  output[j] = input[j]

C10_Witness ==
    /\ code = CODE_N8_K2
    /\ calls = <<"hard_to_llrs", "llrs_to_hard">>
    /\ input = <<86>>
    /\ output = <<86>>

\* the check-to-variable messages u (first s floats of the working area) and
\* the variable-to-check messages v (next s floats), by 0-based edge position
MsgU(wa, e) == At(wa, e)

MsgV(wa, s, e) == At(wa, s + e)

\* largest magnitude among the first n input LLRs
MaxAbsLlr ==
    LET n == ldpc_codes_get_params(code).n
    IN  IF n = 0 THEN 0
        ELSE CHOOSE m \in {fabs(llrs[j]) : j \in 1..n} :
                 \A j \in 1..n : fabs(llrs[j]) <= m

\* ldpc_decode_mp is running or has returned, on a real code
MpStarted ==
    /\ pc \in {"mp", "done"}
    /\ calls # << >>
    /\ calls[Len(calls)] = "mp"
    /\ code \in RealCodes

\* C11 (as stated): after every iteration of ldpc_decode_mp every
\* check-to-variable message is bounded in magnitude by the largest input
\* LLR magnitude.
C11_UBoundedByInputAsStated ==
    MpStarted =>
        \A e \in 0..(ldpc_codes_get_params(code).s - 1) :
            fabs(MsgU(working, e)) <= MaxAbsLlr

\* iterations of ldpc_decode_mp completed so far in the current call
IterationsDone == IF pc = "done" /\ ret = TRUE THEN iters + 1 ELSE iters

\* C11: after every iteration of ldpc_decode_mp, the message u on an edge of
\* a check with at least two neighbours is bounded in magnitude by the
\* message v of every other edge of that check, and after the first
\* iteration by the largest input LLR magnitude; in later iterations it may
\* exceed that magnitude.
C11_UBoundedByOtherV ==
    MpStarted =>
        \A i \in 0..(Len(cs) - 2) :
            \A i_a \in At(cs, i)..(At(cs, i + 1) - 1) :
                /\ \A i_b \in At(cs, i)..(At(cs, i + 1) - 1) :
                      At(ci, i_b) # At(ci, i_a) =>
                          fabs(MsgU(working, i_a)) <=
                              fabs(MsgV(working, Len(ci),
                                        TwinInVariable(vi, vs, At(ci, i_b), i)))
                /\ IterationsDone <= 1 =>
                      fabs(MsgU(working, i_a)) <= MaxAbsLlr

C11_Witness ==
    /\ MpStarted
    /\ IterationsDone >= 2
    /\ \E e \in 0..(Len(ci) - 1) : fabs(MsgU(working, e)) > MaxAbsLlr

\* the edges of variable node va: positions vs[va]..vs[va+1]-1 of vi
VarEdges(va) == At(vs, va)..(At(vs, va + 1) - 1)

\* L_a: the channel LLR of a transmitted bit, 0 for a punctured bit
ChannelLlr(va) ==
    IF va < ldpc_codes_get_params(code).n THEN At(llrs, va) ELSE 0

RECURSIVE SumU(_, _, _)
\* the sum of the messages u(j->va) over the checks j = vi[e], e in E
SumU(wa, va, E) ==
    IF E = {} THEN 0
    ELSE LET e == CHOOSE x \in E : TRUE
         IN  MsgU(wa, TwinInCheck(ci, cs, At(vi, e), va))
             + SumU(wa, va, E \ {e})

\* L_a plus every incoming message but the one of edge e
Extrinsic(wa, va, e) == ChannelLlr(va) + SumU(wa, va, VarEdges(va) \ {e})

\* a step of the loop of ldpc_decode_mp
MpIterStep ==
    /\ pc = "mp"
    /\ pc' \in {"mp", "done"}
    /\ iters' # iters \/ pc' = "done"

\* C12: over every iteration of ldpc_decode_mp and every edge, when the
\* stored v was non-zero and the newly computed extrinsic sum has another
\* sign the stored value becomes exactly 0, so v never holds strictly
\* opposite signs in two consecutive iterations.
C12_SelfCorrection ==
    [][MpIterStep =>
        \A va \in 0..(Len(vs) - 2) :
            \A e \in VarEdges(va) :
                /\ (MsgV(working, Len(ci), e) # 0
                    /\ sign(Extrinsic(working, va, e))
                           # sign(MsgV(working, Len(ci), e)))
                       => MsgV(working', Len(ci), e) = 0
                /\ MsgV(working, Len(ci), e) * MsgV(working', Len(ci), e) >= 0
      ]_vars

\* an iteration is about to reverse the sign of a stored non-zero message
C12_Witness ==
    /\ MpStarted
    /\ pc = "mp"
    /\ \E va \in 0..(Len(vs) - 2) :
           \E e \in VarEdges(va) :
               MsgV(working, Len(ci), e) * Extrinsic(working, va, e) < 0

(***************************************************************************)
(* The decoders as functions of their buffers: the same loops as the       *)
(* actions above, run to the return from given initial buffer contents     *)
(***************************************************************************)
RECURSIVE BfRounds(_, _, _, _)
\* the flip loop of ldpc_decode_bf from round it; ir is *iters_run on entry
BfRounds(out, wa, it, ir) ==
    LET prm == ldpc_codes_get_params(code)
        Decide(violations, max_violations) ==
            IF max_violations = 0
            THEN [ret |-> TRUE, iters_run |-> (ir + it) % 65536,
                  output |-> out]
            ELSE IF bf_loop(it + 1)
            THEN BfRounds(FlipMax(out, violations, max_violations, 0,
                                  prm.n + prm.p),
                          violations, it + 1, ir)
            ELSE [ret |-> FALSE, iters_run |-> (ir + it + 1) % 65536,
                  output |-> FlipMax(out, violations, max_violations, 0,
                                     prm.n + prm.p)]
        Count(violations) ==
            Decide(violations, MaxViolations(violations, 0, prm.n + prm.p, 0))
    IN  Count(Violations(ci, cs, out, 0, prm.n - prm.k + prm.p,
                         memset(wa, 0, 0, prm.n + prm.p)))

RECURSIVE ErasureBits(_, _, _, _, _, _, _)
\* the loops of ldpc_decode_erasures from round it, bit va, then the flip loop
ErasureBits(via, vsa, out, erasures, it, fixed, va) ==
    LET prm == ldpc_codes_get_params(code)
        Tally(votes) ==
            LET fix    == At(erasures, va) # 0 /\ votes # 0
                fixed2 == IF fix THEN fixed + 1 ELSE fixed
                era2   == IF fix THEN [erasures EXCEPT ![va + 1] = 0]
                          ELSE erasures
                out2   == IF ~fix THEN out
                          ELSE IF votes > 0 THEN SetBit(out, va)
                          ELSE ClearBit(out, va)
            IN  IF va + 1 < prm.n + prm.p
                THEN ErasureBits(via, vsa, out2, era2, it, fixed2, va + 1)
                ELSE IF erasures_loop(it + 1, fixed2, prm.p)
                THEN ErasureBits(via, vsa, out2, era2, it + 1, fixed2, prm.n)
                ELSE BfRounds(out2, era2, 0, it + 1)
    IN  Tally(ErasureVotes(ci, cs, via, erasures, out, va,
                           At(vsa, va), At(vsa, va + 1), 0))

\* ldpc_decode_bf on a real code with the variable-side index via, vsa, from
\* the buffers out and wa
BfRun(via, vsa, out, wa) ==
    LET prm == ldpc_codes_get_params(code)
    IN  IF prm.p > 0
        THEN ErasureBits(via, vsa, memset(memcpy(out, input, prm.n \div 8),
                                prm.n \div 8, 0, prm.p \div 8),
                         memset(memset(wa, 0, 0, prm.n), prm.n, 1, prm.p),
                         0, 0, prm.n)
        ELSE BfRounds(memcpy(out, input, prm.n \div 8), wa, 0, 0)

RECURSIVE MpIters(_, _, _)
\* the loop of ldpc_decode_mp from iteration it
MpIters(out, wa, it) ==
    LET prm == ldpc_codes_get_params(code)
        Finish(p1, p2) ==
            IF p2.parity_ok
            THEN [ret |-> TRUE, iters_run |-> it, output |-> p1.out]
            ELSE IF mp_loop(it + 1) THEN MpIters(p1.out, p2.wa, it + 1)
            ELSE [ret |-> FALSE, iters_run |-> it + 1, output |-> p1.out]
        Checks(p1) ==
            Finish(p1, check_update(ci, cs, vi, vs, prm, p1.out, 0,
                                    p1.wa, TRUE))
    IN  Checks(variable_update(ci, cs, vi, vs, llrs, prm, 0, wa,
                   memset(out, 0, 0, (prm.n + prm.p) \div 8)))

\* ldpc_decode_mp on a real code, from the buffers out and wa
MpRun(out, wa) ==
    MpIters(out,
            memset(memset(wa, 0, 0, ldpc_codes_get_params(code).s),
                   ldpc_codes_get_params(code).s, 0,
                   ldpc_codes_get_params(code).s),
            0)

\* both decoders on the words with at most one bit error, every buffer
\* holding one of the garbage patterns
InitPure ==
    \/ \E built \in RealCodes, g \in 0..MaxGarbage :
         \E w \in ReceivedMP[built] :
           /\ InitCommon(built, g, w)
           /\ llrs = Fill(ldpc_codes_get_params(built).n, GarbageFloat(0))
           /\ working = Fill(ldpc_decode_size_bf_wa(built), GarbageByte(g))
    \/ \E built \in RealCodes, g \in 0..MaxGarbage :
         \E w \in ReceivedMP[built] :
           /\ InitCommon(built, g, w)
           /\ llrs = SoftLLRs(w, ldpc_codes_get_params(built).n, 0)
           /\ working = Fill(2 * ldpc_codes_get_params(built).s,
                             GarbageFloat(g))

NextPure ==
    \/ ldpc_decode_bf_entry
    \/ ldpc_decode_erasures_bit
    \/ ldpc_decode_bf_round
    \/ ldpc_decode_mp_entry
    \/ ldpc_decode_mp_iter

SpecPure == InitPure /\ [][NextPure]_vars

\* buffer contents no initial state uses
OtherGarbage == MaxGarbage + 1

Returned == [ret |-> ret, iters_run |-> iters_run, output |-> output]

\* C13: for a real code, what ldpc_decode_bf and ldpc_decode_mp return (the
\* return value, iters_run and the final output) from the initial contents
\* of output and working is what they return from other contents of these
\* buffers, the code, graph and input being the same.
C13_DecodersArePure ==
    /\ (BfReturned /\ code \in RealCodes) =>
           Returned = BfRun(vi, vs,
                            Fill(Len(output), GarbageByte(OtherGarbage)),
                            Fill(Len(working), GarbageByte(OtherGarbage)))
    /\ (MpReturned /\ code \in RealCodes) =>
           Returned = MpRun(Fill(Len(output), GarbageByte(OtherGarbage)),
                            Fill(Len(working), GarbageFloat(OtherGarbage)))

\* both decoders have returned after rewriting bits of a punctured word
C13_Witness ==
    /\ code = CODE_N8_K4_P8
    /\ BfReturned \/ MpReturned
    /\ iters_run >= 1
    /\ FirstBits(output, 8) # FirstBits(input, 8)

\* the variable nodes of check i: ci[cs[i]..cs[i+1])
Neighbours(i) == {At(ci, i_a) : i_a \in At(cs, i)..(At(cs, i + 1) - 1)}

\* the parity of check i over the word out is odd
OddCheck(out, i) ==
    Cardinality({b \in Neighbours(i) : GetBit(out, b) = 1}) % 2 = 1

\* the number of checks adjacent to variable b whose parity is odd
ViolationCount(out, b) ==
    Cardinality({i \in 0..(Len(cs) - 2) : b \in Neighbours(i) /\ OddCheck(out, i)})

\* the variable nodes 0..n+p-1 of the code in use
VariableNodes ==
    0..(ldpc_codes_get_params(code).n + ldpc_codes_get_params(code).p - 1)

\* the counters of all variable nodes
Counts(out) == [b \in VariableNodes |-> ViolationCount(out, b)]

\* the largest of the counters
Largest(counts) ==
    IF Evaluated(counts)
    THEN CHOOSE m \in {counts[b] : b \in DOMAIN counts} :
             \A b \in DOMAIN counts : counts[b] <= m
    ELSE 0

MaxCount(out) == Largest(Counts(out))

\* the variable nodes whose counter is m
TiedAt(counts, m) == {b \in DOMAIN counts : counts[b] = m}

\* the variable nodes whose count is the maximum
FlipSet(out) == TiedAt(Counts(out), MaxCount(out))

\* out with exactly the bits of the set S inverted
FlipAll(out, S) ==
    [j \in 1..Len(out) |->
        LET Bit(m) == IF ((8 * (j - 1) + m) \in S)
                         # (GetBit(out, 8 * (j - 1) + m) = 1)
                      THEN 2 ^ (7 - m) ELSE 0
        IN  Bit(0) + Bit(1) + Bit(2) + Bit(3) + Bit(4) + Bit(5) + Bit(6) + Bit(7)]

RECURSIVE BfOnChecks(_, _)
\* the flip rounds from round it, read off ci and cs alone
BfOnChecks(out, it) ==
    LET Decide(counts, m) ==
            IF m = 0
            THEN [ret |-> TRUE, iters_run |-> it, output |-> out]
            ELSE IF bf_loop(it + 1)
            THEN BfOnChecks(FlipAll(out, TiedAt(counts, m)), it + 1)
            ELSE [ret |-> FALSE, iters_run |-> it + 1,
                  output |-> FlipAll(out, TiedAt(counts, m))]
        Tally(counts) == Decide(counts, Largest(counts))
    IN  IF Evaluated(out) THEN Tally(Counts(out)) ELSE << >>

\* C14: on an unpunctured code, whether vi and vs are the built arrays or
\* NULL, ldpc_decode_bf returns what the flip rounds give when they are read
\* off ci and cs alone, starting from the received word.
C14_BfIgnoresVariableIndex ==
    (BfReturned /\ code \in RealCodes /\ ldpc_codes_get_params(code).p = 0) =>
        Returned = BfOnChecks(input, 0)

\* an unpunctured decode with vi = vs = NULL that corrected bit errors
C14_Witness ==
    /\ BfReturned
    /\ code \in RealCodes
    /\ ldpc_codes_get_params(code).p = 0
    /\ vi = NULL /\ vs = NULL
    /\ ret = TRUE
    /\ iters_run >= 1
    /\ FirstBits(output, 8) # FirstBits(input, 8)

\* a round of the flip loop of ldpc_decode_bf
BfRoundStep ==
    /\ pc = "bf"
    /\ pc' \in {"bf", "done"}
    /\ iters' # iters \/ pc' = "done"

\* C20: in every round of ldpc_decode_bf the counter of each variable node
\* is the number of its adjacent checks with odd parity over the current
\* word; a round whose largest counter is 0 returns true and leaves the word
\* alone, and any other round inverts exactly the bits of the variable nodes
\* in [0, n+p) whose counter is the largest and leaves all other bits alone.
C20_FlipsExactlyMaxCount ==
    [][BfRoundStep =>
        LET Decide(counts, m) ==
                /\ \A b \in VariableNodes : At(working', b) = counts[b]
                /\ IF m = 0
                   THEN pc' = "done" /\ ret' = TRUE /\ output' = output
                   ELSE /\ output' = FlipAll(output, TiedAt(counts, m))
                        /\ \A b \in VariableNodes :
                               (GetBit(output', b) # GetBit(output, b))
                                   <=> (counts[b] = m)
            Tally(counts) == Decide(counts, Largest(counts))
        IN  Tally(Counts(output))
      ]_vars

\* a round is about to flip several tied bits, a punctured bit among them
C20_Witness ==
    /\ pc = "bf"
    /\ calls = <<"bf">>
    /\ MaxCount(output) > 0
    /\ \E b1, b2 \in FlipSet(output) :
           b1 < ldpc_codes_get_params(code).n
           /\ b2 >= ldpc_codes_get_params(code).n
    /\ FlipSet(output) # VariableNodes

\* positions from..to-1 of arr that hold val
Positions(arr, from, to, val) == {e \in from..(to - 1) : At(arr, e) = val}

\* starts is non-decreasing, begins at 0 and ends at s
StartsWellFormed(starts, s) ==
    /\ At(starts, 0) = 0
    /\ At(starts, Len(starts) - 1) = s
    /\ \A x \in 0..(Len(starts) - 2) : At(starts, x) <= At(starts, x + 1)

\* the buffers ci, cs, vi, vs hold both indexings of the H of code c
GraphEncodes(c) ==
    LET H   == ParityCheck(c)
        prm == ldpc_codes_get_params(c)
    IN  /\ Len(cs) = Len(H) + 1
        /\ Len(vs) = prm.n + prm.p + 1
        /\ Len(ci) = prm.s
        /\ Len(vi) = prm.s
        /\ StartsWellFormed(cs, prm.s)
        /\ StartsWellFormed(vs, prm.s)
        /\ \A i \in 0..(Len(H) - 1), b \in 0..(prm.n + prm.p - 1) :
               /\ Cardinality(Positions(ci, At(cs, i), At(cs, i + 1), b))
                      = IF b \in H[i + 1] THEN 1 ELSE 0
               /\ Cardinality(Positions(vi, At(vs, b), At(vs, b + 1), i))
                      = IF b \in H[i + 1] THEN 1 ELSE 0

\* the code the buffers were built for
BuiltCode == CHOOSE c \in RealCodes : Len(ci) = ldpc_codes_get_params(c).s

SizeCodes == Codes \cup EnumCodes

\* C16 (as stated): for every code ldpc_decode_size_bf_wa returns n + p, the
\* harness has allocated that many bytes as the working area of
\* ldpc_decode_bf, and the macro LDPC_SIZE_BF_WA gives the same value.
C16_BfSizeMacroAgrees ==
    /\ \A c \in SizeCodes :
           /\ ldpc_decode_size_bf_wa(c) = LDPC_PARAM_N(c) + LDPC_PARAM_P(c)
           /\ LDPC_SIZE_BF_WA(c) = ldpc_decode_size_bf_wa(c)
    /\ calls = <<"bf">> =>
           /\ Len(working) = ldpc_decode_size_bf_wa(BuiltCode)
           /\ Len(working) = LDPC_SIZE_BF_WA(BuiltCode)

\* L_a plus every incoming message, each counted once
Marginal(wa, va) == ChannelLlr(va) + SumU(wa, va, VarEdges(va))

\* C17 (as stated): in each iteration of ldpc_decode_mp the output bit of
\* every variable node is 1 exactly when its full marginal, the channel LLR
\* plus each incoming check message of the previous iteration counted once,
\* is at most 0.
C17_HardDecisionIsMarginal ==
    [][MpIterStep =>
        \A va \in VariableNodes :
            (GetBit(output', va) = 1) <=> (Marginal(working, va) <= 0)
      ]_vars

\* C18: over every iteration of ldpc_decode_mp the message v stored on the
\* edge (a, i) is the self-correction of L_a plus the previous u(j->a) of all
\* checks j of a other than i, where L_a is llrs[a] for a < n and 0 for a
\* punctured node; llrs has n entries and none beyond them is used.
C18_ExtrinsicSum ==
    [][MpIterStep =>
        /\ Len(llrs) = ldpc_codes_get_params(code).n
        /\ \A va \in VariableNodes :
               \A e \in VarEdges(va) :
                   LET Stored(prev, fresh) ==
                           MsgV(working', Len(ci), e) =
                               IF prev # 0 /\ sign(fresh) # sign(prev)
                               THEN 0 ELSE fresh
                   IN  Stored(MsgV(working, Len(ci), e),
                              Extrinsic(working, va, e))
      ]_vars

\* a punctured node is about to send a non-zero sum of other checks' messages
C18_Witness ==
    /\ MpStarted
    /\ pc = "mp"
    /\ iters >= 1
    /\ \E va \in VariableNodes :
           /\ va >= ldpc_codes_get_params(code).n
           /\ \E e \in VarEdges(va) :
                  /\ Extrinsic(working, va, e) # 0
                  /\ Extrinsic(working, va, e) # Marginal(working, va)
                  /\ MsgV(working, Len(ci), e) * Extrinsic(working, va, e) >= 0

\* the positions in v of the messages v(b->i) of the neighbours b of check i
\* other than the one at position i_a of ci
OtherEdges(i, i_a) ==
    {TwinInVariable(vi, vs, At(ci, i_b), i) :
        i_b \in (At(cs, i)..(At(cs, i + 1) - 1)) \ {i_a}}

RECURSIVE SignProduct(_, _)
\* the product of sign(v[e]) over the positions e of E
SignProduct(wa, E) ==
    IF E = {} THEN 1
    ELSE LET e == CHOOSE x \in E : TRUE
         IN  sign(MsgV(wa, Len(ci), e)) * SignProduct(wa, E \ {e})

\* the smallest |v[e]| over the positions e of E, FLT_MAX when E is empty
MinAbs(wa, E) ==
    IF E = {} THEN FLT_MAX
    ELSE CHOOSE m \in {fabs(MsgV(wa, Len(ci), e)) : e \in E} :
             \A e \in E : m <= fabs(MsgV(wa, Len(ci), e))

\* C19: once ldpc_decode_mp has zeroed its messages, and after every
\* iteration, the message u on each edge (i, a) is the product of the signs
\* of this iteration's v(b->i) over the other neighbours b of check i times
\* the smallest of their magnitudes, with sign(0) = 0; a zero message from
\* another neighbour makes it 0.
C19_MinSumCheckUpdate ==
    MpStarted =>
        \A i \in 0..(Len(cs) - 2) :
            \A i_a \in At(cs, i)..(At(cs, i + 1) - 1) :
                LET Holds(E) ==
                        /\ MsgU(working, i_a) =
                               SignProduct(working, E) * MinAbs(working, E)
                        /\ (\E e \in E : MsgV(working, Len(ci), e) = 0)
                               => MsgU(working, i_a) = 0
                IN  Holds(OtherEdges(i, i_a))

\* after an iteration a check sends a negative message on one edge and, a
\* neighbour's message being 0, the message 0 on another
C19_Witness ==
    /\ MpStarted
    /\ IterationsDone >= 1
    /\ \E i \in 0..(Len(cs) - 2) :
           \E i_a, i_b \in At(cs, i)..(At(cs, i + 1) - 1) :
               /\ MsgU(working, i_a) < 0
               /\ MsgU(working, i_b) = 0
               /\ \E e \in OtherEdges(i, i_b) : MsgV(working, Len(ci), e) = 0

\* a pass of the body of the loop over the punctured bits
ErasureStep == pc = "erasures" /\ pc' \in {"erasures", "bf"}

\* the checks adjacent to variable b all of whose other neighbours are known
VotingChecks(erasures, b) ==
    {i \in 0..(Len(cs) - 2) :
        /\ b \in Neighbours(i)
        /\ \A x \in Neighbours(i) \ {b} : At(erasures, x) = 0}

\* the checks among S whose other neighbours have odd parity in out
OddVoters(S, out, b) ==
    {i \in S :
        Cardinality({x \in Neighbours(i) \ {b} : GetBit(out, x) = 1}) % 2 = 1}

\* votes for 1 minus votes for 0
VoteTotal(erasures, out, b) ==
    LET Total(S) == 2 * Cardinality(OddVoters(S, out, b)) - Cardinality(S)
    IN  Total(VotingChecks(erasures, b))

\* C21: when the erasure pre-decoder visits a still-erased punctured bit a,
\* the bit is resolved exactly when its vote total is non-zero, the total
\* being +1 for each adjacent check without another erased neighbour whose
\* other neighbours have odd parity and -1 for each with even parity; the
\* bit becomes 1 for a positive total, 0 for a negative one, and stays
\* erased with its value for a total of 0.
C21_ErasureVoting ==
    [][(ErasureStep /\ At(working, a) # 0) =>
        LET Resolve(total) ==
                /\ (At(working', a) = 0) <=> (total # 0)
                /\ total > 0 => GetBit(output', a) = 1
                /\ total < 0 => GetBit(output', a) = 0
                /\ total = 0 => output' = output /\ working' = working
        IN  Resolve(VoteTotal(working, output, a))
      ]_vars

\* an erased bit is about to be set to 1 by several checks while another
\* of its checks, having a second erased neighbour, does not vote
C21_Witness ==
    /\ pc = "erasures"
    /\ At(working, a) # 0
    /\ VoteTotal(working, output, a) >= 2
    /\ \E i \in 0..(Len(cs) - 2) :
           a \in Neighbours(i) /\ i \notin VotingChecks(working, a)

\* the punctured variable nodes n..n+p-1 of the code in use
PuncturedNodes ==
    ldpc_codes_get_params(code).n
        ..(ldpc_codes_get_params(code).n + ldpc_codes_get_params(code).p - 1)

\* the punctured nodes still marked as erased
Erased(erasures) == {b \in PuncturedNodes : At(erasures, b) # 0}

\* C22: the erasure pre-decoder returns exactly at the end of a round (after
\* the visit of bit n+p-1) that leaves no punctured bit erased or that is the
\* 16th round, never in the middle of a round or while bits are erased and
\* rounds remain; the count it reports is the number of rounds it ran, from
\* 1 to 16.
C22_ErasureRounds ==
    [][ErasureStep =>
        /\ iters < max_iters_erasures
        /\ (pc' = "bf") <=>
               /\ a = ldpc_codes_get_params(code).n
                        + ldpc_codes_get_params(code).p - 1
               /\ Erased(working') = {} \/ iters + 1 = max_iters_erasures
        /\ pc' = "bf" =>
               /\ iters_run' = iters + 1
               /\ iters_run' \in 1..max_iters_erasures
        /\ pc' = "erasures" =>
               /\ iters' = IF a' <= a THEN iters + 1 ELSE iters
               /\ a' \in PuncturedNodes
               /\ a' = IF a' <= a THEN ldpc_codes_get_params(code).n
                       ELSE a + 1
      ]_vars

\* the pre-decoder has returned after two rounds with every bit resolved
C22_Witness ==
    /\ pc = "bf"
    /\ calls = <<"bf">>
    /\ iters = 0
    /\ ldpc_codes_get_params(code).p > 0
    /\ iters_run = 2
    /\ Erased(working) = {}

\* the pre-decoder is running or has just handed the word to the flip loop
ErasuresInEffect ==
    /\ calls = <<"bf">>
    /\ ldpc_codes_get_params(code).p > 0
    /\ vi # NULL /\ vs # NULL
    /\ pc = "erasures" \/ (pc = "bf" /\ iters = 0)

\* C23: while the erasure pre-decoder runs, and in the word it hands to the
\* flip rounds, every punctured bit still marked as erased has the value 0.
C23_ErasedBitsAreZero ==
    ErasuresInEffect => \A b \in Erased(working) : GetBit(output, b) = 0

\* the pre-decoder has handed over a word with erased bits beside bits it
\* has set to 1
C23_Witness ==
    /\ ErasuresInEffect
    /\ pc = "bf"
    /\ Erased(working) # {}
    /\ \E b \in PuncturedNodes \ Erased(working) : GetBit(output, b) = 1


\* C24: the erasure pre-decoder leaves the first n bits of output as they
\* were received and marks none of the variable nodes 0..n-1 as erased; a
\* pass writes at most the punctured bit it visits, and a punctured bit that
\* is resolved keeps its cleared mark and its value in every later pass.
C24_ErasureFrame ==
    [][/\ ErasureStep =>
            /\ a \in PuncturedNodes
            /\ \A b \in 0..(8 * Len(output) - 1) \ {a} :
                   /\ GetBit(output', b) = GetBit(output, b)
                   /\ At(working', b) = At(working, b)
            /\ At(working, a) = 0 =>
                   /\ At(working', a) = 0
                   /\ GetBit(output', a) = GetBit(output, a)
       /\ pc' = "erasures" =>
            /\ FirstBits(output', ldpc_codes_get_params(code).n)
                   = FirstBits(input, ldpc_codes_get_params(code).n)
            /\ \A b \in 0..(ldpc_codes_get_params(code).n - 1) :
                   At(working', b) = 0
      ]_vars

\* a later round visits a bit resolved to 1 on which checks still vote,
\* beside a bit that is still erased
C24_Witness ==
    /\ pc = "erasures"
    /\ iters >= 1
    /\ At(working, a) = 0
    /\ GetBit(output, a) = 1
    /\ VoteTotal(working, output, a) # 0
    /\ Erased(working) # {}


\* a step of one of the decoders
DecodeStep ==
    /\ pc \in {"idle", "erasures", "bf", "mp"}
    /\ calls' # << >>
    /\ calls'[Len(calls')] \in {"bf", "mp"}

\* C25: no step of ldpc_decode_bf, ldpc_decode_erasures or ldpc_decode_mp
\* changes ci, cs, vi, vs, the received hard bits or the llrs; and when a
\* decoder has returned, a further call of the same decoder with the graph,
\* the input and the buffers as they are now returns the same value, count
\* and output.
C25_GraphAndInputKept ==
    /\ [][DecodeStep => UNCHANGED <<ci, cs, vi, vs, input, llrs>>]_vars
    /\ []((BfReturned /\ code \in RealCodes) =>
               Returned = BfRun(vi, vs, output, working))
    /\ []((MpReturned /\ code \in RealCodes) =>
               Returned = MpRun(output, working))

\* a decoder has returned a word that differs from the received one, after
\* at least two rounds
C25_Witness ==
    /\ BfReturned \/ MpReturned
    /\ code \in RealCodes
    /\ iters_run >= 2
    /\ FirstBits(output, ldpc_codes_get_params(code).n)
           # FirstBits(input, ldpc_codes_get_params(code).n)


\* the nodes 0..m-1 in decreasing order
Descending(m) == [k \in 1..m |-> m - k]

\* the nodes 0..m-1 with the even ones first, then the odd ones
EvensFirst(m) ==
    [k \in 1..m |-> IF 2 * (k - 1) < m THEN 2 * (k - 1)
                    ELSE 2 * (k - 1 - ((m + 1) \div 2)) + 1]

RECURSIVE variable_update_in(_, _, _, _)
\* the variable update of one iteration with the nodes visited as order
\* lists them, from its k-th entry
variable_update_in(order, k, wa, out) ==
    IF k > Len(order) \/ ~Evaluated(<<wa, out>>)
    THEN [wa |-> wa, out |-> out]
    ELSE LET va  == order[k]
             l_a == ChannelLlr(va)
             Decide(st) ==
                 variable_update_in(order, k + 1, st.wa,
                                    IF st.llr_a <= 0 THEN SetBit(out, va)
                                    ELSE out)
         IN  Decide(VariableEdges(ci, cs, vi, ldpc_codes_get_params(code).s,
                                  l_a, va, At(vs, va), At(vs, va),
                                  At(vs, va + 1), [wa |-> wa, llr_a |-> l_a]))

RECURSIVE check_update_in(_, _, _, _, _)
\* the check update of one iteration with the checks visited as order lists
\* them, from its k-th entry
check_update_in(order, k, out, wa, parity_ok) ==
    IF k > Len(order) \/ ~Evaluated(<<wa, parity_ok>>)
    THEN [wa |-> wa, parity_ok |-> parity_ok]
    ELSE LET i == order[k]
             Test(st) ==
                 check_update_in(order, k + 1, out, st.wa,
                                 IF st.parity % 2 = 1 THEN FALSE
                                 ELSE parity_ok)
         IN  Test(CheckEdges(ci, vi, vs, ldpc_codes_get_params(code).s,
                             out, i, At(cs, i), At(cs, i), At(cs, i + 1),
                             [wa |-> wa, parity |-> 0]))

\* one iteration of ldpc_decode_mp with the variable nodes visited in the
\* order vorder and the checks in the order corder
MpIterationIn(vorder, corder) ==
    LET Checks(p1) ==
            LET Finish(p2) ==
                    [out |-> p1.out, wa |-> p2.wa, parity_ok |-> p2.parity_ok]
            IN  Finish(check_update_in(corder, 1, p1.out, p1.wa, TRUE))
    IN  Checks(variable_update_in(vorder, 1, working,
                   memset(output, 0, 0, Len(output))))

\* C26: every iteration of ldpc_decode_mp leaves the messages u and v, the
\* output and the outcome of the parity test that it would leave with the
\* variable nodes and the checks visited in decreasing order, or with the
\* even ones before the odd ones.
C26_VisitingOrderIrrelevant ==
    [][MpIterStep =>
        \A ord \in {<<Descending(Len(vs) - 1), Descending(Len(cs) - 1)>>,
                     <<EvensFirst(Len(vs) - 1), EvensFirst(Len(cs) - 1)>>} :
            LET Same(r) ==
                    /\ working' = r.wa
                    /\ output' = r.out
                    /\ (pc' = "done" /\ ret' = TRUE) <=> r.parity_ok
            IN  Same(MpIterationIn(ord[1], ord[2]))
      ]_vars

\* an iteration starts from non-zero messages of an earlier one, some of
\* them negative, on a word whose checks do not all hold
C26_Witness ==
    /\ MpStarted
    /\ pc = "mp"
    /\ iters >= 1
    /\ \E e \in 0..(Len(ci) - 1) : MsgU(working, e) < 0
    /\ \E e \in 0..(Len(ci) - 1) : MsgV(working, Len(ci), e) > 0


\* the values of the p punctured bits (p/8 bytes) with which the word w of
\* n transmitted bits satisfies every parity check
Extensions(w) ==
    {x \in [1..(ldpc_codes_get_params(code).p \div 8) -> 0..255] :
        ParityChecksHold(w \o x)}

\* C27: when ldpc_decode_bf is given a codeword without errors, then while
\* the erasure pre-decoder runs and when it hands over, the codeword has one
\* extension to n+p bits and every punctured bit that is no longer erased
\* has the value it has in that extension.
C27_ResolvedBitsAreCodewordBits ==
    (ErasuresInEffect /\ input \in Codewords[code]) =>
        LET Agree(X) ==
                /\ Cardinality(X) = 1
                /\ \A x \in X :
                       \A b \in PuncturedNodes \ Erased(working) :
                           GetBit(output, b) = GetBit(input \o x, b)
        IN  Agree(Extensions(input))

\* in the first round on a codeword, the bit visited is still erased and a
\* check that votes on it holds a punctured bit resolved to 1 in this round
C27_Witness ==
    /\ ErasuresInEffect
    /\ input \in Codewords[code]
    /\ pc = "erasures"
    /\ iters = 0
    /\ At(working, a) # 0
    /\ \E i \in VotingChecks(working, a) :
           \E b \in (Neighbours(i) \cap PuncturedNodes) \ {a} :
               GetBit(output, b) = 1


\* C28: while the flip rounds run, iters_run holds the number of rounds the
\* erasure pre-decoder ran (0 when it did not run) and iters the number of
\* flip rounds so far, each of which changed the word; the count returned is
\* their sum with the returning round counted only if it flipped bits: at
\* most 36, the pre-decoder rounds plus 20 on a false return and plus at
\* most 19 on a true return.
C28_BfIterationCount ==
    [][/\ (ErasureStep /\ pc' = "bf") => iters_run' = iters + 1 /\ iters' = 0
       /\ BfRoundStep =>
            /\ iters_run \in 0..max_iters_erasures
            /\ (ldpc_codes_get_params(code).p = 0 \/ vi = NULL \/ vs = NULL)
                   => iters_run = 0
            /\ pc' = "bf" =>
                   /\ output' # output
                   /\ iters' = iters + 1
                   /\ iters_run' = iters_run
            /\ pc' = "done" =>
                   /\ iters_run' = iters_run + iters
                                      + (IF output' # output THEN 1 ELSE 0)
                   /\ iters_run' <= max_iters_erasures + max_iters_bf
                   /\ ret' = FALSE => iters_run' = iters_run + max_iters_bf
                   /\ ret' = TRUE  => /\ output' = output
                                      /\ iters_run' <= iters_run + max_iters_bf - 1
      ]_vars

\* a true return after pre-decoder rounds and flip rounds
C28_Witness ==
    /\ BfReturned
    /\ ret = TRUE
    /\ ldpc_codes_get_params(code).p > 0
    /\ iters >= 1
    /\ iters_run >= iters + 2


\* C29: on a real code every iteration of ldpc_decode_mp has an index in
\* 0..19; one after which a check fails is followed by the next or, after
\* index 19, by the return of false with the count 20; one after which all
\* checks hold returns true with its index as the count. Hence on return
\* the value is true exactly when the count is below 20.
C29_MpIterationCount ==
    /\ [][MpIterStep =>
            /\ iters \in 0..(max_iters_mp - 1)
            /\ ParityChecksHold(output') =>
                   pc' = "done" /\ ret' = TRUE /\ iters_run' = iters
            /\ ~ParityChecksHold(output') =>
                   IF iters = max_iters_mp - 1
                   THEN pc' = "done" /\ ret' = FALSE
                        /\ iters_run' = max_iters_mp
                   ELSE pc' = "mp" /\ iters' = iters + 1
         ]_vars
    /\ []((MpReturned /\ code \in RealCodes) =>
              /\ iters_run \in 0..max_iters_mp
              /\ ret = TRUE <=> iters_run < max_iters_mp)

\* ldpc_decode_mp has returned true from an iteration after the first
C29_Witness ==
    /\ MpReturned
    /\ code \in RealCodes
    /\ ret = TRUE
    /\ iters_run >= 1
    /\ iters_run = iters


\* the entry of ldpc_decode_bf
BfEntryStep == pc = "idle" /\ calls' = <<"bf">>

\* ldpc_decode_bf is used on a punctured code with vi or vs NULL
NullIndex ==
    /\ code \in RealCodes
    /\ ldpc_codes_get_params(code).p > 0
    /\ vi = NULL \/ vs = NULL

\* C30: when ldpc_decode_bf is called for a punctured code with vi or vs
\* NULL, the pre-decoder runs no round and leaves working and the count 0
\* as they are; the flip rounds start on the received n bits followed by
\* the p bits the output buffer held before the call.
C30_NullIndexSkipsErasures ==
    /\ [][(BfEntryStep /\ NullIndex) =>
            /\ pc' = "bf"
            /\ iters' = 0
            /\ iters_run' = 0
            /\ working' = working
            /\ FirstBits(output', ldpc_codes_get_params(code).n)
                   = FirstBits(input, ldpc_codes_get_params(code).n)
            /\ \A b \in PuncturedNodes :
                   GetBit(output', b) = GetBit(output, b)
         ]_vars
    /\ [](NullIndex => pc # "erasures")

\* the flip rounds are about to start with punctured bits that are 1 and
\* working not zeroed, the pre-decoder having been skipped
C30_Witness ==
    /\ NullIndex
    /\ pc = "bf"
    /\ iters = 0
    /\ iters_run = 0
    /\ \E b \in PuncturedNodes : GetBit(output, b) = 1
    /\ \E b \in PuncturedNodes : At(working, b) > 1

====
